---- MODULE Spec2Model ----
(***************************************************************************)
(* Model of the WhatsApp pairing-session generator (src/index.js).         *)
(*                                                                         *)
(* One HTTP process serves POST /generate, GET /status/:id and             *)
(* GET /download/:id.  POST /generate writes sessions/<id>/state.json and  *)
(* starts a background pairing workflow that talks to a messaging client   *)
(* (sock).  The workflow is an async function: every await is a point      *)
(* where other callbacks run, so each action below is the code between     *)
(* two awaits (or one whole synchronous callback).                         *)
(*                                                                         *)
(* The messaging client is the environment: it answers the pairing-code    *)
(* request with success or failure and delivers 'connection.update' and    *)
(* 'creds.update' events in any order and any number of times once the     *)
(* listeners are registered.                                               *)
(***************************************************************************)
EXTENDS Integers, Sequences, FiniteSets, TLC

\* ------------------------------------------------------------------ bounds
MaxEnds     == 2      \* calls of sock.end() followed per session
MaxInflight == 1      \* open handlers suspended in sendMessage per session
MaxSenderCalls == 1   \* further calls of startSenderIfConfigured in flight

\* -------------------------------------------------------- program constants
MinPhoneLen == 8      \* phone.length < 8 is rejected

\* The ids uuidv4() hands out, in the order they are handed out.  Sessions
\* share no state but the sender socket, so two of them show every
\* interleaving of one workflow with another.
SessionIds == {1, 2}

Absent == "absent"    \* a key that the JSON record does not have
NoFile == [status |-> "nofile"]

\* ------------------------------------------------------------ request data
Digits == {"0", "1", "2", "3", "4", "5", "6", "7", "8", "9"}

\* Bodies of POST /generate: the phone as typed, one character per element.
PhoneInputs ==
  { << >>,
    <<"1", "2", "3">>,
    <<"2", "5", "4", "-", "7", "0", "0", " ", "1", "1">>,
    <<"2", "5", "4", "7", "0", "0", "1", "1">>,
    <<"+", "2", "5", "4", "7", "0", "0", "1", "1", "9">> }

\* Pairing codes the client can answer with.
Codes == {"ABCD-1234"}

\* update.lastDisconnect?.error?.message of a close event ("" = none).
CloseMessages == {"", "Connection Failure"}

IsDigit(c) == c \in Digits

\* (req.body.phone || '').replace(/[^0-9]/g, '')
NormalizePhone(raw) == SelectSeq(raw, IsDigit)

\* Fault variant: the minimum length is not tested.
ValidPhone_NoMinLen(p) == Len(p) # 0

\* !(!phone || phone.length < 8)
ValidPhone(p) == Len(p) # 0 /\ ~(Len(p) < MinPhoneLen)

\* update.lastDisconnect?.error?.message || 'closed'
CloseReason(msg) == IF msg = "" THEN "closed" ELSE msg

VARIABLES
  server,      \* "boot" | "sender_init" | "listening": the startup IIFE
  senderSock,  \* TRUE when the relay sender socket was created
  stateFile,   \* id -> contents of sessions/<id>/state.json, or NoFile
  credsFile,   \* id -> TRUE when sessions/<id>/creds.json exists
  returned,    \* ids sent back in a POST /generate response
  rejected,    \* number of POST /generate answered 400 (capped at 1)
  pc,          \* id -> position of the background workflow
  timer,       \* id -> "unset" | "pending" | "fired" | "cleared"
  closed,      \* id -> the workflow's local flag `closed`
  ends,        \* id -> number of sock.end() calls made
  inflight,    \* id -> open handlers awaiting senderSock.sendMessage
  lastEvt,     \* id -> history: last callback run for the session
  uncaught,    \* TRUE once an exception left a callback without being caught
  senderCalls, \* further calls of startSenderIfConfigured awaiting their setup
  senderConns  \* number of sender sockets made by makeWASocket

vars == <<server, senderSock, stateFile, credsFile, returned, rejected,
          pc, timer, closed, ends, inflight, lastEvt, uncaught, senderCalls,
          senderConns>>

\* ------------------------------------------------------------ session store
\* The record POST /generate writes (createdAt, a clock reading, is left out).
InitialRecord(p) ==
  [status |-> "initializing", phone |-> p, code |-> Absent, ready |-> Absent,
   sentToPhone |-> Absent, sendError |-> Absent, reason |-> Absent,
   error |-> Absent]

\* Object.assign(cur, obj)
Assign(cur, obj) ==
  [k \in DOMAIN cur |-> IF k \in DOMAIN obj THEN obj[k] ELSE cur[k]]

\* Fault variant: one state file shared by the sessions instead of one per
\* session directory.
updateState_SharedFile(files, s, obj) ==
  [u \in DOMAIN files |->
     IF files[u] = [status |-> "nofile"] THEN files[u] ELSE Assign(files[u], obj)]

\* updateState(obj) of session s: read the file, merge, write it back.
updateState(files, s, obj) ==
  [files EXCEPT ![s] = Assign(files[s], obj)]

Exists(s) == stateFile[s] # NoFile

\* GET /status/:id
GetStatus(s) ==
  IF ~Exists(s) THEN [http |-> 404, body |-> NoFile]
  ELSE [http |-> 200, body |-> stateFile[s]]

\* GET /download/:id
GetCredentials(s) ==
  IF ~credsFile[s] THEN [http |-> 404, body |-> "Not ready"]
  ELSE [http |-> 200, body |-> "creds.json"]

StatusOf(s) == stateFile[s].status

\* ------------------------------------------------------------------- Init
Init ==
  /\ server = "boot"
  /\ senderSock = FALSE
  /\ stateFile = [s \in SessionIds |-> NoFile]
  /\ credsFile = [s \in SessionIds |-> FALSE]
  /\ returned = {}
  /\ rejected = 0
  /\ pc = [s \in SessionIds |-> "none"]
  /\ timer = [s \in SessionIds |-> "unset"]
  /\ closed = [s \in SessionIds |-> FALSE]
  /\ ends = [s \in SessionIds |-> 0]
  /\ inflight = [s \in SessionIds |-> 0]
  /\ lastEvt = [s \in SessionIds |-> "none"]
  /\ uncaught = FALSE
  /\ senderCalls = 0
  /\ senderConns = 0


\* ---------------------------------------------------------------- startup
\* startSenderIfConfigured, up to its first await: with no sender directory it
\* returns at once and the server starts listening.
StartSenderIfConfigured(senderPath) ==
  /\ server = "boot"
  /\ ~senderSock
  /\ server' = IF senderPath THEN "sender_init" ELSE "listening"
  /\ UNCHANGED <<senderSock, stateFile, credsFile, returned, rejected, pc,
                 timer, closed, ends, inflight, lastEvt>>
  /\ UNCHANGED <<uncaught, senderCalls, senderConns>>

\* The rest of startSenderIfConfigured: makeWASocket gives the sender socket,
\* or an exception is logged and senderSock stays null; then app.listen.
SenderStarted(ok) ==
  /\ server = "sender_init"
  /\ senderSock' = (senderSock \/ ok)
  /\ server' = "listening"
  /\ UNCHANGED <<stateFile, credsFile, returned, rejected, pc, timer, closed,
                 ends, inflight, lastEvt>>
  /\ senderConns' = IF ok THEN senderConns + 1 ELSE senderConns
  /\ UNCHANGED <<uncaught, senderCalls>>

\* ----------------------------------------------------------- POST /generate
\* uuidv4(): an id no session has.
FreshId(s) == s \notin returned /\ \A t \in SessionIds \ returned : s <= t

\* Fault variant: the record is left for the background workflow to write.
WriteInitialRecord_Skipped(files, s, p) == files

\* writeJson(stateFile, {id, phone, status: 'initializing', createdAt})
WriteInitialRecord(files, s, p) == [files EXCEPT ![s] = InitialRecord(p)]

\* A request with a valid phone: the record is written, the workflow runs up
\* to `await useMultiFileAuthState`, and the response carries the id.
CreateSession(raw, s) ==
  /\ server = "listening"
  /\ ValidPhone(NormalizePhone(raw))
  /\ FreshId(s)
  /\ stateFile' = WriteInitialRecord(stateFile, s, NormalizePhone(raw))
  /\ pc' = [pc EXCEPT ![s] = "setup"]
  /\ returned' = returned \cup {s}
  /\ UNCHANGED <<server, senderSock, credsFile, rejected, timer, closed, ends,
                 inflight, lastEvt>>
  /\ UNCHANGED <<uncaught, senderCalls, senderConns>>

\* A request with an invalid phone: 400, nothing else.
RejectSession(raw) ==
  /\ server = "listening"
  /\ ~ValidPhone(NormalizePhone(raw))
  /\ rejected = 0
  /\ rejected' = 1
  /\ UNCHANGED <<server, senderSock, stateFile, credsFile, returned, pc, timer,
                 closed, ends, inflight, lastEvt>>
  /\ UNCHANGED <<uncaught, senderCalls, senderConns>>

\* ------------------------------------------------------ background workflow
\* sock.end() through cleanup(), or directly in the catch of the code request.
cleanup(s) == [ends EXCEPT ![s] = @ + 1]

\* useMultiFileAuthState / makeWASocket succeeded; the listeners of
\* 'creds.update' are registered; status requesting_code is written and the
\* workflow awaits sock.requestPairingCode.
SetupDone(s) ==
  /\ pc[s] = "setup"
  /\ Exists(s)
  /\ stateFile' = updateState(stateFile, s, [status |-> "requesting_code"])
  /\ pc' = [pc EXCEPT ![s] = "requesting"]
  /\ UNCHANGED <<server, senderSock, credsFile, returned, rejected, timer,
                 closed, ends, inflight, lastEvt>>
  /\ UNCHANGED <<uncaught, senderCalls, senderConns>>

\* useMultiFileAuthState or makeWASocket threw: the outer catch writes
\* status 'error'.  No socket exists yet.
SetupFailed(s) ==
  /\ pc[s] = "setup"
  /\ Exists(s)
  /\ stateFile' = updateState(stateFile, s,
                              [status |-> "error", error |-> "setup failed"])
  /\ pc' = [pc EXCEPT ![s] = "done"]
  /\ UNCHANGED <<server, senderSock, credsFile, returned, rejected, timer,
                 closed, ends, inflight, lastEvt>>
  /\ UNCHANGED <<uncaught, senderCalls, senderConns>>

\* Fault variant: the status is written without the code.
CodePatch_NoCode(c) == [status |-> "code"]

\* updateState({ status: 'code', code })
CodePatch(c) == [status |-> "code", code |-> c]

\* requestPairingCode resolved: the code is stored, the timer is started and
\* the 'connection.update' handler is registered, with no await in between.
CodeIssued(s, c) ==
  /\ pc[s] = "requesting"
  /\ stateFile' = updateState(stateFile, s, CodePatch(c))
  /\ timer' = [timer EXCEPT ![s] = "pending"]
  /\ pc' = [pc EXCEPT ![s] = "waiting"]
  /\ UNCHANGED <<server, senderSock, credsFile, returned, rejected, closed,
                 ends, inflight, lastEvt>>
  /\ UNCHANGED <<uncaught, senderCalls, senderConns>>

\* Fault variant: the catch does not return, so the workflow goes on to start
\* the timer and to register the connection handler.
AfterCodeFailure_FallsThrough == "waiting"

\* `return` at the end of the catch: the workflow is over.
AfterCodeFailure == "done"

\* requestPairingCode rejected: status 'failed', sock.end(), return.
CodeFailed(s) ==
  /\ pc[s] = "requesting"
  /\ stateFile' = updateState(stateFile, s,
                    [status |-> "failed", error |-> "requestPairingCode failed"])
  /\ ends' = cleanup(s)
  /\ pc' = [pc EXCEPT ![s] = AfterCodeFailure]
  /\ UNCHANGED <<server, senderSock, credsFile, returned, rejected, timer,
                 closed, inflight, lastEvt>>
  /\ UNCHANGED <<uncaught, senderCalls, senderConns>>

\* saveCreds, the listener of 'creds.update': the auth state made by
\* useMultiFileAuthState(sessDir) is saved in sessDir, as creds.json.
CredsUpdate(s) ==
  /\ pc[s] \in {"requesting", "waiting"}
  /\ ~credsFile[s]
  /\ credsFile' = [credsFile EXCEPT ![s] = TRUE]
  /\ UNCHANGED <<server, senderSock, stateFile, returned, rejected, pc, timer,
                 closed, ends, inflight, lastEvt>>
  /\ UNCHANGED <<uncaught, senderCalls, senderConns>>

\* Fault variant: the timer is started when the workflow starts.
TimerArmed_FromCreation(s) ==
  \/ timer[s] = "pending"
  \/ pc[s] \in {"setup", "requesting"} /\ timer[s] = "unset"

\* Fault variant: the callback tests `closed` the wrong way round.
TimeoutApplies_Inverted(s) == closed[s]

\* The timer runs its callback only once setTimeout was called and unless
\* clearTimeout was.
TimerArmed(s) == timer[s] = "pending"

\* if (!closed)
TimeoutApplies(s) == ~closed[s]

\* The timer callback.
TimeoutFire(s) ==
  /\ TimerArmed(s)
  /\ TimeoutApplies(s) => ends[s] < MaxEnds
  /\ timer' = [timer EXCEPT ![s] = "fired"]
  /\ lastEvt' = [lastEvt EXCEPT ![s] = "timeout"]
  /\ IF TimeoutApplies(s)
       THEN /\ stateFile' = updateState(stateFile, s, [status |-> "timeout"])
            /\ ends' = cleanup(s)
       ELSE UNCHANGED <<stateFile, ends>>
  /\ UNCHANGED <<server, senderSock, credsFile, returned, rejected, pc, closed,
                 inflight>>
  /\ UNCHANGED <<uncaught, senderCalls, senderConns>>

\* clearTimeout(timeout): a timer that already ran is not affected.
clearTimeout(s) ==
  [timer EXCEPT ![s] = IF @ = "pending" THEN "cleared" ELSE @]

\* Fault variant: nothing is recorded before the relay send.
PairedRecord_Deferred(files, s) == files

\* updateState({ status: 'paired' }) and, after creds.json is written,
\* updateState({ ready: true, credsPath }).
PairedRecord(files, s) ==
  updateState(updateState(files, s, [status |-> "paired"]), s, [ready |-> "true"])

\* 'connection.update' with connection === 'open', up to the await of
\* senderSock.sendMessage (with a sender) or to the end (without).
ConnOpen(s) ==
  /\ pc[s] = "waiting"
  /\ IF senderSock THEN inflight[s] < MaxInflight ELSE ends[s] < MaxEnds
  /\ timer' = clearTimeout(s)
  /\ stateFile' = PairedRecord(stateFile, s)
  /\ credsFile' = [credsFile EXCEPT ![s] = TRUE]
  /\ lastEvt' = [lastEvt EXCEPT ![s] = "open"]
  /\ IF senderSock
       THEN /\ inflight' = [inflight EXCEPT ![s] = @ + 1]
            /\ UNCHANGED <<ends, closed>>
       ELSE /\ ends' = cleanup(s)
            /\ closed' = [closed EXCEPT ![s] = TRUE]
            /\ UNCHANGED inflight
  /\ UNCHANGED <<server, senderSock, returned, rejected, pc>>
  /\ UNCHANGED <<uncaught, senderCalls, senderConns>>

\* Fault variant: the relay failure is escalated to the session status.
RelayFailurePatch_Demotes ==
  [status |-> "error", sentToPhone |-> "false", sendError |-> "send failed"]

\* What the catch around the relay writes.
RelayFailurePatch == [sentToPhone |-> "false", sendError |-> "send failed"]

\* sendMessage resolved (ok) or rejected: the outcome is recorded, then
\* cleanup() and closed = true.
RelayDone(s, ok) ==
  /\ inflight[s] > 0
  /\ ends[s] < MaxEnds
  /\ inflight' = [inflight EXCEPT ![s] = @ - 1]
  /\ stateFile' = updateState(stateFile, s,
                    IF ok THEN [sentToPhone |-> "true"] ELSE RelayFailurePatch)
  /\ ends' = cleanup(s)
  /\ closed' = [closed EXCEPT ![s] = TRUE]
  /\ UNCHANGED <<server, senderSock, credsFile, returned, rejected, pc, timer,
                 lastEvt>>
  /\ UNCHANGED <<uncaught, senderCalls, senderConns>>

\* Fault variant: the close branch does not look at cur.ready.
ClosedBeforePaired_Always(s) == TRUE

\* if (!cur.ready): the close arrived before the session was paired.
ClosedBeforePaired(s) == stateFile[s].ready = Absent

\* 'connection.update' with connection === 'close'.
ConnClose(s, msg) ==
  /\ pc[s] = "waiting"
  /\ ClosedBeforePaired(s) => ends[s] < MaxEnds
  /\ lastEvt' = [lastEvt EXCEPT ![s] = "close"]
  /\ IF ClosedBeforePaired(s)
       THEN /\ stateFile' = updateState(stateFile, s,
                   [status |-> "closed", reason |-> CloseReason(msg)])
            /\ ends' = cleanup(s)
            /\ closed' = [closed EXCEPT ![s] = TRUE]
       ELSE UNCHANGED <<stateFile, ends, closed>>
  /\ UNCHANGED <<server, senderSock, credsFile, returned, rejected, pc, timer,
                 inflight>>
  /\ UNCHANGED <<uncaught, senderCalls, senderConns>>

\* ------------------------------------------------------------ specification
Next ==
  \/ \E senderPath \in BOOLEAN : StartSenderIfConfigured(senderPath)
  \/ \E ok \in BOOLEAN : SenderStarted(ok)
  \/ \E raw \in PhoneInputs, s \in SessionIds : CreateSession(raw, s)
  \/ \E raw \in PhoneInputs : RejectSession(raw)
  \/ \E s \in SessionIds : SetupDone(s)
  \/ \E s \in SessionIds : SetupFailed(s)
  \/ \E s \in SessionIds, c \in Codes : CodeIssued(s, c)
  \/ \E s \in SessionIds : CodeFailed(s)
  \/ \E s \in SessionIds : CredsUpdate(s)
  \/ \E s \in SessionIds : TimeoutFire(s)
  \/ \E s \in SessionIds : ConnOpen(s)
  \/ \E s \in SessionIds, ok \in BOOLEAN : RelayDone(s, ok)
  \/ \E s \in SessionIds, msg \in CloseMessages : ConnClose(s, msg)

Spec == Init /\ [][Next]_vars

\* ------------------------------------------- exceptions inside callbacks
\* Spec takes every file operation to succeed.  FaultSpec adds the runs in
\* which the first file operation of a callback throws (state.json missing or
\* unreadable, disk full).  The callbacks run after the workflow's try block
\* has been left and have no try of their own around these operations, so
\* the exception leaves the callback: an unhandled rejection of the async
\* handler, an uncaught exception of the timer.

\* The handler, open branch: clearTimeout, then updateState throws.
OpenHandlerThrows(s) ==
  /\ pc[s] = "waiting"
  /\ ~uncaught
  /\ timer' = clearTimeout(s)
  /\ lastEvt' = [lastEvt EXCEPT ![s] = "open"]
  /\ uncaught' = TRUE
  /\ UNCHANGED <<server, senderSock, stateFile, credsFile, returned, rejected,
                 pc, closed, ends, inflight, senderCalls, senderConns>>

\* The handler, close branch: readFileSync / JSON.parse throws.
CloseHandlerThrows(s) ==
  /\ pc[s] = "waiting"
  /\ ~uncaught
  /\ lastEvt' = [lastEvt EXCEPT ![s] = "close"]
  /\ uncaught' = TRUE
  /\ UNCHANGED <<server, senderSock, stateFile, credsFile, returned, rejected,
                 pc, timer, closed, ends, inflight, senderCalls, senderConns>>

\* The timer callback: updateState throws, cleanup() is not reached.
TimeoutThrows(s) ==
  /\ TimerArmed(s)
  /\ TimeoutApplies(s)
  /\ ~uncaught
  /\ timer' = [timer EXCEPT ![s] = "fired"]
  /\ lastEvt' = [lastEvt EXCEPT ![s] = "timeout"]
  /\ uncaught' = TRUE
  /\ UNCHANGED <<server, senderSock, stateFile, credsFile, returned, rejected,
                 pc, closed, ends, inflight, senderCalls, senderConns>>

FaultNext ==
  \/ Next
  \/ \E s \in SessionIds : OpenHandlerThrows(s)
  \/ \E s \in SessionIds : CloseHandlerThrows(s)
  \/ \E s \in SessionIds : TimeoutThrows(s)

FaultSpec == Init /\ [][FaultNext]_vars

\* ------------------------------------ further calls of the sender start
\* index.js calls startSenderIfConfigured once, at startup.  SenderSpec adds
\* further calls of the same function, made while the server runs (the
\* lazy initialisation by pairing workflows), each split at its awaits like
\* the startup call.

\* A further call, up to its first await: it returns at once when senderSock
\* is set or no sender directory exists.
StartSenderAgain(senderPath) ==
  /\ server # "boot"
  /\ ~senderSock
  /\ senderCalls < MaxSenderCalls
  /\ senderCalls' = IF senderPath THEN senderCalls + 1 ELSE senderCalls
  /\ UNCHANGED <<server, senderSock, stateFile, credsFile, returned, rejected,
                 pc, timer, closed, ends, inflight, lastEvt, uncaught,
                 senderConns>>

\* The rest of a further call: senderSock = makeWASocket(...), or the catch.
SenderAgainStarted(ok) ==
  /\ senderCalls > 0
  /\ senderCalls' = senderCalls - 1
  /\ senderSock' = (senderSock \/ ok)
  /\ senderConns' = IF ok THEN senderConns + 1 ELSE senderConns
  /\ UNCHANGED <<server, stateFile, credsFile, returned, rejected, pc, timer,
                 closed, ends, inflight, lastEvt, uncaught>>

SenderNext ==
  \/ Next
  \/ \E senderPath \in BOOLEAN : StartSenderAgain(senderPath)
  \/ \E ok \in BOOLEAN : SenderAgainStarted(ok)

SenderSpec == Init /\ [][SenderNext]_vars

\* The event loop runs a timer callback that is due: weak fairness of each
\* session's timer.
LiveSpec == Spec /\ \A s \in SessionIds : WF_vars(TimeoutFire(s))

\* ------------------------------------------------------------------ claims
\* Statuses the code writes: 'initializing' is the spec's init, 'failed' (code
\* request rejected) and 'error' (outer catch) are the spec's error.
Statuses == {"initializing", "requesting_code", "code", "paired", "timeout",
             "closed", "failed", "error"}
Terminal == {"paired", "timeout", "closed", "failed", "error"}
NonTerminal == Statuses \ Terminal

\* The edges of the workflow state machine.
Edges ==
  {<<"initializing", "requesting_code">>, <<"requesting_code", "code">>,
   <<"requesting_code", "failed">>, <<"code", "paired">>,
   <<"code", "timeout">>, <<"code", "closed">>}
  \cup {<<n, "error">> : n \in NonTerminal}

\* C1: once a session's recorded status is terminal, no later event changes
\* it (the first of open, close and timeout wins, the rest are no-ops).
C1_TerminalIsFinal ==
  [][\A s \in SessionIds :
       (Exists(s) /\ StatusOf(s) \in Terminal) => StatusOf(s)' = StatusOf(s)]_vars

\* C2: every change of a session's recorded status follows an edge of the
\* workflow state machine.
C2_OnlyEdges ==
  [][\A s \in SessionIds :
       (Exists(s) /\ StatusOf(s)' # StatusOf(s))
          => <<StatusOf(s), StatusOf(s)'>> \in Edges]_vars

\* C3: GET /download/:id serves the credentials if and only if the session's
\* recorded status is exactly paired.
C3_CredentialsIffPaired ==
  \A s \in SessionIds :
    (GetCredentials(s).http = 200) <=> (Exists(s) /\ StatusOf(s) = "paired")

\* C4: a failed relay send leaves the status paired and is recorded only in
\* sentToPhone = false and sendError.
C4_RelayFailureKeepsPaired ==
  [][\A s \in SessionIds :
       RelayDone(s, FALSE)
          => /\ StatusOf(s) = "paired"
             /\ StatusOf(s)' = "paired"
             /\ stateFile'[s].sentToPhone = "false"
             /\ stateFile'[s].sendError # Absent
             /\ stateFile'[s].error = Absent]_vars

C4_Witness ==
  \E s \in SessionIds :
    /\ Exists(s)
    /\ StatusOf(s) = "paired"
    /\ stateFile[s].sendError # Absent
    /\ stateFile[s].sentToPhone = "false"

\* C5: the pairing client of a session is ended exactly once on every
\* terminal transition: never twice, and never left open once the terminal
\* status is recorded and its handler has run to the end.
C5_EndedExactlyOnce ==
  \A s \in SessionIds :
    /\ ends[s] <= 1
    /\ (/\ Exists(s)
        /\ StatusOf(s) \in {"paired", "timeout", "closed", "failed"}
        /\ inflight[s] = 0) => ends[s] = 1

\* C6: a connection-close event delivered once status timeout is recorded is
\* ignored: the status remains timeout.
C6_CloseAfterTimeoutIgnored ==
  [][\A s \in SessionIds : \A msg \in CloseMessages :
       (Exists(s) /\ StatusOf(s) = "timeout" /\ ConnClose(s, msg))
          => StatusOf(s)' = "timeout"]_vars

\* C7: once status paired is recorded, no later close event and no timer
\* firing changes it, also while the relay send is in flight.
C7_PairedIsFinal ==
  [][\A s \in SessionIds :
       (Exists(s) /\ StatusOf(s) = "paired") => StatusOf(s)' = "paired"]_vars

\* A close event was delivered to a paired session whose relay is in flight.
C7_Witness ==
  \E s \in SessionIds :
    /\ Exists(s)
    /\ StatusOf(s) = "paired"
    /\ inflight[s] > 0
    /\ lastEvt[s] = "close"

\* C8: the timer exists and status timeout is recorded only for a session
\* whose pairing code has been issued, never in init or requesting_code.
C8_TimeoutOnlyAfterCode ==
  \A s \in SessionIds :
    (Exists(s) /\ (timer[s] # "unset" \/ StatusOf(s) = "timeout"))
       => /\ stateFile[s].code # Absent
          /\ StatusOf(s) \notin {"initializing", "requesting_code"}

C8_Witness ==
  \E s \in SessionIds :
    Exists(s) /\ StatusOf(s) = "timeout" /\ stateFile[s].code \in Codes

\* C9: a session in status code with no connection event eventually gets
\* status timeout; it never stays in code forever.
C9_CodeLeadsToTimeout ==
  \A s \in SessionIds :
    (Exists(s) /\ StatusOf(s) = "code")
       ~> (StatusOf(s) = "timeout" \/ lastEvt[s] \in {"open", "close"})

\* The timer fired on a session that no connection event reached.
C9_Witness ==
  \E s \in SessionIds :
    /\ Exists(s)
    /\ StatusOf(s) = "timeout"
    /\ lastEvt[s] = "timeout"
    /\ stateFile[s].ready = Absent
    /\ stateFile[s].reason = Absent

\* C10: a session id returned by POST /generate is never NotFound for
\* GET /status, however far the background workflow has progressed.
C10_ReturnedIdIsFound ==
  \A s \in returned :
    /\ GetStatus(s).http = 200
    /\ GetStatus(s).body.status \in Statuses

\* One returned session is still in init while another is already terminal.
C10_Witness ==
  \E s, u \in returned :
    /\ GetStatus(s).http = 200 /\ GetStatus(s).body.status = "initializing"
    /\ GetStatus(u).http = 200 /\ GetStatus(u).body.status \in Terminal

\* C11: POST /generate with an invalid phone (empty, or fewer than 8 digits
\* once the non-digits are stripped) is answered with an input error and
\* changes nothing: every record that appears holds 8 digits or more, and the
\* step that rejects leaves the store and the workflows as they were.
C11_InvalidPhoneCreatesNothing ==
  [][/\ \A s \in SessionIds :
          (~Exists(s) /\ Exists(s)')
             => /\ Len(stateFile'[s].phone) >= 8
                /\ \A i \in 1..Len(stateFile'[s].phone) :
                      stateFile'[s].phone[i] \in Digits
     /\ rejected' # rejected
          => UNCHANGED <<stateFile, credsFile, returned, pc, timer, ends>>]_vars

\* A request was rejected and the store is still empty.
C11_Witness ==
  /\ rejected = 1
  /\ returned = {}
  /\ \A s \in SessionIds : ~Exists(s) /\ pc[s] = "none"

\* C12: a failed pairing-code request is recorded as terminal 'failed' with
\* a diagnostic, stores no code, ends the client once, ends the workflow (the
\* code is not requested again, no timer) and the status never changes again.
C12_CodeFailureIsTerminal ==
  [][\A s \in SessionIds :
       /\ (Exists(s) /\ StatusOf(s)' = "failed")
            => /\ stateFile'[s].error # Absent
               /\ stateFile'[s].code = Absent
               /\ ends'[s] = 1
               /\ pc'[s] = "done"
               /\ timer'[s] = "unset"
               /\ StatusOf(s) \in {"requesting_code", "failed"}
       /\ (Exists(s) /\ pc[s] = "done") => (pc'[s] = "done" /\ StatusOf(s)' = StatusOf(s))]_vars

C12_Witness ==
  \E s \in SessionIds :
    /\ Exists(s)
    /\ StatusOf(s) = "failed"
    /\ stateFile[s].error # Absent
    /\ ends[s] = 1
    /\ pc[s] = "done"

\* C13: a session that pairs while no relay sender is available ends up
\* paired with sentToPhone equal to false and downloadable credentials.
C13_NoSenderRecordsFalse ==
  \A s \in SessionIds :
    (Exists(s) /\ StatusOf(s) = "paired" /\ ~senderSock)
       => /\ stateFile[s].sentToPhone = "false"
          /\ GetCredentials(s).http = 200

\* C14: after the code was issued, a close event that arrives before any
\* open records status closed with the reason of the event, and the session
\* stays closed with that reason.
C14_ClosedWithReasonStays ==
  [][\A s \in SessionIds :
       /\ \A msg \in CloseMessages :
            (Exists(s) /\ StatusOf(s) = "code" /\ ConnClose(s, msg))
               => /\ StatusOf(s)' = "closed"
                  /\ stateFile'[s].reason = CloseReason(msg)
       /\ (Exists(s) /\ StatusOf(s) = "closed")
            => /\ StatusOf(s)' = "closed"
               /\ stateFile'[s].reason = stateFile[s].reason]_vars

\* A step of the workflow of session s, its creation included.
SessionStep(s) ==
  \/ \E raw \in PhoneInputs : CreateSession(raw, s)
  \/ SetupDone(s) \/ SetupFailed(s)
  \/ (\E c \in Codes : CodeIssued(s, c)) \/ CodeFailed(s)
  \/ CredsUpdate(s) \/ TimeoutFire(s) \/ ConnOpen(s)
  \/ (\E ok \in BOOLEAN : RelayDone(s, ok))
  \/ (\E msg \in CloseMessages : ConnClose(s, msg))

\* C15: every step of one session's workflow leaves the record and the
\* credentials of every other session unchanged, and creates nothing for an
\* id that has no session; GET /status and GET /download are reads of the
\* store (GetStatus, GetCredentials) that write nothing.
C15_SessionsIsolated ==
  [][\A s \in SessionIds :
       SessionStep(s)
          => \A u \in SessionIds \ {s} :
               /\ stateFile'[u] = stateFile[u]
               /\ credsFile'[u] = credsFile[u]
               /\ GetStatus(u)' = GetStatus(u)
               /\ GetCredentials(u)' = GetCredentials(u)]_vars

\* Two sessions at different stages: one paired with its credentials, the
\* other issued a code and untouched by the first one's events.
C15_Witness ==
  \E s, u \in SessionIds :
    /\ s # u
    /\ Exists(s) /\ StatusOf(s) = "paired" /\ credsFile[s]
    /\ lastEvt[s] = "open"
    /\ Exists(u) /\ StatusOf(u) = "code" /\ ~credsFile[u]
    /\ lastEvt[u] = "none"

\* C16: the pairing code is absent in init and requesting_code, present from
\* status code on, and once set it never changes or disappears.
C16_CodeSetOnce ==
  [][\A s \in SessionIds :
       Exists(s)'
          => /\ StatusOf(s)' \in {"initializing", "requesting_code"}
                  => stateFile'[s].code = Absent
             /\ StatusOf(s)' \in {"code", "paired", "timeout", "closed"}
                  => stateFile'[s].code \in Codes
             /\ (Exists(s) /\ stateFile[s].code # Absent)
                  => stateFile'[s].code = stateFile[s].code]_vars

\* The code is still there after the session went through code, timeout,
\* closed and paired.
C16_Witness ==
  \E s \in SessionIds :
    /\ Exists(s)
    /\ StatusOf(s) = "paired"
    /\ stateFile[s].reason # Absent
    /\ timer[s] = "fired"
    /\ stateFile[s].code \in Codes

\* C19: a record with sentToPhone true has status paired and its credentials
\* stored; a relay send is in flight only after both were persisted.
C19_SentImpliesPairedWithCreds ==
  \A s \in SessionIds :
    (Exists(s) /\ (stateFile[s].sentToPhone = "true" \/ inflight[s] > 0))
       => /\ StatusOf(s) = "paired"
          /\ stateFile[s].ready = "true"
          /\ credsFile[s]
          /\ GetCredentials(s).http = 200

\* The relay succeeded and the client was released after the outcome was
\* recorded.
C19_Witness ==
  \E s \in SessionIds :
    /\ Exists(s)
    /\ stateFile[s].sentToPhone = "true"
    /\ inflight[s] = 0
    /\ closed[s]
    /\ ends[s] = 1

\* C20: the credentials of a session are relayed at most once: once the
\* paired entry actions have run (ready is set), no later connection-open
\* event starts another relay send.
C20_RelayAtMostOnce ==
  [][\A s \in SessionIds :
       (Exists(s) /\ stateFile[s].ready = "true")
          => inflight'[s] <= inflight[s]]_vars

\* C17: every failure inside the background workflow becomes a terminal
\* status of the session: no exception leaves a callback uncaught, and a
\* session that waits in status code always keeps the timer that will end it.
C17_FailuresBecomeStatus ==
  /\ ~uncaught
  /\ \A s \in SessionIds :
       (Exists(s) /\ pc[s] = "waiting" /\ StatusOf(s) = "code")
          => timer[s] = "pending"

====
